---- MODULE Spec2Model ----
(***************************************************************************)
(* Model of Firestore/core/src/firebase/firestore/core/query.cc:           *)
(* the immutable Query value, its builder methods, the memoized canonical  *)
(* order-by derivation order_bys(), document matching and operator==.      *)
(*                                                                         *)
(* Query instances live in `heap` (a sequence, index = object identity).   *)
(* Every field of an instance is immutable except memoized_order_bys,      *)
(* which order_bys() fills lazily.  `last` records the outcome of the      *)
(* most recent call; a HARD_ASSERT failure is a call with ok = FALSE.      *)
(* `readers` holds the position of each thread that is inside              *)
(* order_bys(), for the interleaved specification SpecRace.                *)
(***************************************************************************)
EXTENDS Integers, Sequences, FiniteSets, TLC

VARIABLES heap, last, readers

vars == <<heap, last, readers>>

\* ---------------------------------------------------------------- bounds

\* Number of Query instances kept alive at once.
MaxQueries == 3

\* Number of threads that may be inside order_bys() at once.
NumReaders == 2

\* Builder calls behind each query the concurrent readers are started on.
RaceDepth == 2

\* ------------------------------------------------- collaborators' values

\* FieldPath::KeyFieldPath(), the sentinel field "order by document key".
KeyFieldPath == "__name__"

\* The null FieldPath pointer returned by InequalityFilterField() and
\* FirstOrderByField().
NoField == "<null>"

FieldPaths == {KeyFieldPath, "a", "b"}

IsKeyFieldPath(field) == field = KeyFieldPath

Ascending == "asc"

Descending == "desc"

OrderBy(field, direction) == [field |-> field, direction |-> direction]

\* Order-bys handed to AddingOrderBy.
OrderByArgs ==
    { OrderBy("a", Ascending), OrderBy("b", Descending),
      OrderBy(KeyFieldPath, Ascending) }

\* A field filter: field, relational operator, operand.
FieldFilter(field, op, value) == [field |-> field, op |-> op, value |-> value]

\* Filter::IsInequality(): a relational operator other than equality.
IsInequality(filter) == filter.op \in {"<", "<=", ">", ">="}

\* Filters handed to AddingFilter.
FilterArgs ==
    { FieldFilter("a", ">", 1), FieldFilter("a", "<", 2),
      FieldFilter("b", ">", 1), FieldFilter(KeyFieldPath, ">", 1),
      FieldFilter("b", "==", 1) }

\* The null CollectionGroupId.
NoGroup == "<null>"

\* Absent limit.
NoLimit == 0

\* Limits handed to WithLimit.
LimitArgs == {1}

\* The null Bound pointer, and a Bound: boundary values plus inclusivity.
NoBound == [present |-> FALSE, components |-> <<>>, inclusive |-> FALSE]

Bound(components, inclusive) ==
    [present |-> TRUE, components |-> components, inclusive |-> inclusive]

\* Bounds handed to StartingAt and EndingAt.
BoundArgs == { Bound(<<1>>, TRUE), Bound(<<2>>, FALSE) }

\* Resource paths are sequences of segments.
CollectionPath == <<"c">>

DocumentPath == <<"c", "d">>

SubCollectionPath == <<"c", "d", "c">>

\* Paths handed to AsCollectionQueryAtPath.
PathArgs == { CollectionPath, DocumentPath, SubCollectionPath }

\* DocumentKey::IsDocumentKey(path): an even number of segments.
IsDocumentKey(path) == Len(path) % 2 = 0

IsPrefixOf(path, other) ==
    /\ Len(path) <= Len(other)
    /\ \A k \in 1..Len(path) : path[k] = other[k]

IsImmediateParentOf(path, other) ==
    /\ Len(other) = Len(path) + 1
    /\ IsPrefixOf(path, other)

\* A document: its key path, the key's rank in key order, and its data
\* (0 = the document has no value for the field).
NoValue == 0

Document(path, rank, a, b) == [path |-> path, rank |-> rank, a |-> a, b |-> b]

Documents ==
    { Document(DocumentPath, 1, 2, 1),
      Document(DocumentPath, 1, 1, NoValue),
      Document(<<"c", "d", "c", "e">>, 2, 2, 2) }

\* Document::field(field_path): the value, or nullopt.
DocField(doc, field) ==
    IF field = "a" THEN doc.a ELSE IF field = "b" THEN doc.b ELSE NoValue

\* The value a bound component or key filter is compared with.
DocSortValue(doc, field) ==
    IF IsKeyFieldPath(field) THEN doc.rank ELSE DocField(doc, field)

\* DocumentKey::HasCollectionId(id): the segment before the last one.
HasCollectionId(doc, id) ==
    /\ Len(doc.path) >= 2
    /\ doc.path[Len(doc.path) - 1] = id

\* Filter::Matches(doc): the document has the field and the relation holds.
FilterMatches(filter, doc) ==
    LET v == DocSortValue(doc, filter.field)
    IN  /\ v # NoValue
        /\ CASE filter.op = "==" -> v = filter.value
             [] filter.op = "<"  -> v < filter.value
             [] filter.op = "<=" -> v <= filter.value
             [] filter.op = ">"  -> v > filter.value
             [] OTHER            -> v >= filter.value

\* ------------------------------------------------------------ the Query

\* The full constructor the builder methods call: the seven fields given,
\* the memo left empty.
MakeQuery(path, group, filters, order_bys, limit, start_at, end_at) ==
    [ path |-> path, collection_group |-> group, filters |-> filters,
      explicit_order_bys |-> order_bys, limit |-> limit,
      start_at |-> start_at, end_at |-> end_at,
      memoized_order_bys |-> <<>> ]

\* Query(path, collection_group): root query of a collection group.
GroupQuery(path, group) ==
    MakeQuery(path, group, <<>>, <<>>, NoLimit, NoBound, NoBound)

\* Query(path): root query with no collection group.
PathQuery(path) ==
    MakeQuery(path, NoGroup, <<>>, <<>>, NoLimit, NoBound, NoBound)

Roots ==
    { PathQuery(CollectionPath), PathQuery(DocumentPath),
      GroupQuery(<<>>, "c"), GroupQuery(DocumentPath, "c") }

\* AppendingTo(vector, value): a copy with value pushed back.
AppendingTo(vector, value) == Append(vector, value)

\* IsDocumentQuery() with the collection-group test inverted.
IsDocumentQueryGroupInverted(q) ==
    /\ IsDocumentKey(q.path)
    /\ q.collection_group # NoGroup
    /\ q.filters = <<>>

IsDocumentQuery(q) ==
    /\ IsDocumentKey(q.path)
    /\ q.collection_group = NoGroup
    /\ q.filters = <<>>

\* Field of the first inequality filter in insertion order, or null.
InequalityFilterField(q) ==
    LET idx == { k \in 1..Len(q.filters) : IsInequality(q.filters[k]) }
    IN  IF idx = {} THEN NoField
        ELSE q.filters[CHOOSE k \in idx : \A m \in idx : k <= m].field

FirstOrderByField(q) ==
    IF q.explicit_order_bys = <<>> THEN NoField
    ELSE q.explicit_order_bys[1].field

\* Outcome of a call that returns a Query: ok = FALSE is a failed
\* HARD_ASSERT, in which case no Query is produced.
Built(q) == [ok |-> TRUE, query |-> q]

Failed(q) == [ok |-> FALSE, query |-> q]

\* AddingFilter() without the check of line 152.
AddingFilterAnyField(q, filter) ==
    IF IsDocumentQuery(q) THEN Failed(q)
    ELSE Built(MakeQuery(q.path, q.collection_group,
                         AppendingTo(q.filters, filter),
                         q.explicit_order_bys, q.limit, q.start_at, q.end_at))

\* AddingFilter() written as copy-and-modify: the copy keeps the memo.
AddingFilterCopyingMemo(q, filter) ==
    LET new_inequality_field ==
            IF IsInequality(filter) THEN filter.field ELSE NoField
        query_inequality_field == InequalityFilterField(q)
    IN  IF IsDocumentQuery(q) THEN Failed(q)
        ELSE IF ~ ( \/ query_inequality_field = NoField
                    \/ new_inequality_field = NoField
                    \/ query_inequality_field = new_inequality_field )
        THEN Failed(q)
        ELSE Built([q EXCEPT !.filters = AppendingTo(q.filters, filter)])

AddingFilter(q, filter) ==
    LET new_inequality_field ==
            IF IsInequality(filter) THEN filter.field ELSE NoField
        query_inequality_field == InequalityFilterField(q)
    IN  IF IsDocumentQuery(q) THEN Failed(q)
        ELSE IF ~ ( \/ query_inequality_field = NoField
                    \/ new_inequality_field = NoField
                    \/ query_inequality_field = new_inequality_field )
        THEN Failed(q)
        ELSE Built(MakeQuery(q.path, q.collection_group,
                             AppendingTo(q.filters, filter),
                             q.explicit_order_bys, q.limit,
                             q.start_at, q.end_at))

\* AddingOrderBy() without the check of lines 166-170.
AddingOrderByAnyField(q, order_by) ==
    IF IsDocumentQuery(q) THEN Failed(q)
    ELSE Built(MakeQuery(q.path, q.collection_group, q.filters,
                         AppendingTo(q.explicit_order_bys, order_by),
                         q.limit, q.start_at, q.end_at))

AddingOrderBy(q, order_by) ==
    IF IsDocumentQuery(q) THEN Failed(q)
    ELSE IF /\ q.explicit_order_bys = <<>>
            /\ ~ ( \/ InequalityFilterField(q) = NoField
                   \/ InequalityFilterField(q) = order_by.field )
    THEN Failed(q)
    ELSE Built(MakeQuery(q.path, q.collection_group, q.filters,
                         AppendingTo(q.explicit_order_bys, order_by),
                         q.limit, q.start_at, q.end_at))

WithLimit(q, limit) ==
    Built(MakeQuery(q.path, q.collection_group, q.filters,
                    q.explicit_order_bys, limit, q.start_at, q.end_at))

StartingAt(q, bound) ==
    Built(MakeQuery(q.path, q.collection_group, q.filters,
                    q.explicit_order_bys, q.limit, bound, q.end_at))

EndingAt(q, bound) ==
    Built(MakeQuery(q.path, q.collection_group, q.filters,
                    q.explicit_order_bys, q.limit, q.start_at, bound))

\* AsCollectionQueryAtPath() passing the receiver's collection group on.
AsCollectionQueryAtPathKeepingGroup(q, path) ==
    Built(MakeQuery(path, q.collection_group, q.filters, q.explicit_order_bys,
                    q.limit, q.start_at, q.end_at))

AsCollectionQueryAtPath(q, path) ==
    Built(MakeQuery(path, NoGroup, q.filters, q.explicit_order_bys,
                    q.limit, q.start_at, q.end_at))

\* --------------------------------------------------------- order_bys()

\* Outcome of order_bys() on q: ok = FALSE is the failed HARD_ASSERT of
\* line 103; value is the sequence returned; memo is the memo afterwards.
OrderBysOutcome(ok, value, memo) == [ok |-> ok, value |-> value, memo |-> memo]

\* Lines 109-126 without the implicit key ordering.
ExplicitWithoutKey(q) == q.explicit_order_bys

\* Lines 109-126: the explicit order-bys, then the key unless one of them
\* already orders by the key.
ExplicitThenKey(q) ==
    LET explicit == q.explicit_order_bys
        found_key_order ==
            \E k \in 1..Len(explicit) : IsKeyFieldPath(explicit[k].field)
        last_direction ==
            IF explicit = <<>> THEN Ascending
            ELSE explicit[Len(explicit)].direction
    IN  IF found_key_order THEN explicit
        ELSE Append(explicit, OrderBy(KeyFieldPath, last_direction))

\* Lines 87-128: the computation done when the memo is empty.
ComputeOrderBys(q) ==
    LET inequality_field == InequalityFilterField(q)
        first_order_by_field == FirstOrderByField(q)
    IN  IF inequality_field # NoField /\ first_order_by_field = NoField
        THEN IF IsKeyFieldPath(inequality_field)
             THEN [ok |-> TRUE,
                   value |-> <<OrderBy(KeyFieldPath, Ascending)>>]
             ELSE [ok |-> TRUE,
                   value |-> <<OrderBy(inequality_field, Ascending),
                               OrderBy(KeyFieldPath, Ascending)>>]
        ELSE IF ~ ( \/ inequality_field = NoField
                    \/ inequality_field = first_order_by_field )
        THEN [ok |-> FALSE, value |-> <<>>]
        ELSE [ok |-> TRUE, value |-> ExplicitThenKey(q)]

\* order_bys() without the empty() test of line 86: every call computes
\* again, the emplace_back calls of lines 94-99 adding to what is there.
order_bysAlwaysComputing(q) ==
    LET c == ComputeOrderBys(q)
    IN  IF c.ok
        THEN OrderBysOutcome(TRUE, q.memoized_order_bys \o c.value,
                             q.memoized_order_bys \o c.value)
        ELSE OrderBysOutcome(FALSE, <<>>, q.memoized_order_bys)

order_bys(q) ==
    IF q.memoized_order_bys # <<>>
    THEN OrderBysOutcome(TRUE, q.memoized_order_bys, q.memoized_order_bys)
    ELSE LET c == ComputeOrderBys(q)
         IN  IF c.ok THEN OrderBysOutcome(TRUE, c.value, c.value)
             ELSE OrderBysOutcome(FALSE, <<>>, q.memoized_order_bys)

\* ------------------------------------------------------------ matching

\* Lines 204-218 with the document-path test put before the group test.
MatchesPathAndCollectionGroupPathFirst(q, doc) ==
    IF IsDocumentKey(q.path)
    THEN q.path = doc.path
    ELSE IF q.collection_group # NoGroup
    THEN HasCollectionId(doc, q.collection_group) /\ IsPrefixOf(q.path, doc.path)
    ELSE IsImmediateParentOf(q.path, doc.path)

MatchesPathAndCollectionGroup(q, doc) ==
    IF q.collection_group # NoGroup
    THEN HasCollectionId(doc, q.collection_group) /\ IsPrefixOf(q.path, doc.path)
    ELSE IF IsDocumentKey(q.path)
    THEN q.path = doc.path
    ELSE IsImmediateParentOf(q.path, doc.path)

MatchesFilters(q, doc) ==
    \A k \in 1..Len(q.filters) : FilterMatches(q.filters[k], doc)

\* Lines 227-237 without the key-field exemption of line 231.
MatchesOrderByKeyToo(q, doc) ==
    \A k \in 1..Len(q.explicit_order_bys) :
        DocField(doc, q.explicit_order_bys[k].field) # NoValue

MatchesOrderBy(q, doc) ==
    \A k \in 1..Len(q.explicit_order_bys) :
        LET field_path == q.explicit_order_bys[k].field
        IN  ~ (field_path # KeyFieldPath /\ DocField(doc, field_path) = NoValue)

\* Comparison of bound component k with the document, in the direction of
\* order-by k: -1 the bound sorts first, 0 equal, 1 the document sorts first.
CompareAt(bound, ordering, doc, k) ==
    LET v == DocSortValue(doc, ordering[k].field)
        c == bound.components[k]
        raw == IF c < v THEN -1 ELSE IF c = v THEN 0 ELSE 1
    IN  IF ordering[k].direction = Ascending THEN raw ELSE 0 - raw

\* Bound::SortsBeforeDocument(ordering, doc): the first unequal pair
\* decides; if every pair is equal, the bound's inclusivity decides.
SortsBeforeDocument(bound, ordering, doc) ==
    LET n == IF Len(bound.components) <= Len(ordering)
             THEN Len(bound.components) ELSE Len(ordering)
        diff == { k \in 1..n : CompareAt(bound, ordering, doc, k) # 0 }
    IN  IF diff = {} THEN bound.inclusive
        ELSE CompareAt(bound, ordering, doc,
                       CHOOSE k \in diff : \A m \in diff : k <= m) < 0

\* Lines 241-247 with the test of the start bound turned round.
MatchesBoundsInStartInverted(q, ordering, doc) ==
    IF q.start_at.present /\ SortsBeforeDocument(q.start_at, ordering, doc)
    THEN FALSE
    ELSE IF q.end_at.present /\ SortsBeforeDocument(q.end_at, ordering, doc)
    THEN FALSE
    ELSE TRUE

\* Lines 241-247 without the test of the end bound.
MatchesBoundsInStartOnly(q, ordering, doc) ==
    IF q.start_at.present /\ ~ SortsBeforeDocument(q.start_at, ordering, doc)
    THEN FALSE
    ELSE TRUE

\* Lines 241-247, given the sequence order_bys() returned.
MatchesBoundsIn(q, ordering, doc) ==
    IF q.start_at.present /\ ~ SortsBeforeDocument(q.start_at, ordering, doc)
    THEN FALSE
    ELSE IF q.end_at.present /\ SortsBeforeDocument(q.end_at, ordering, doc)
    THEN FALSE
    ELSE TRUE

\* Outcome of a call that reads the canonical order-bys: ok = FALSE when
\* order_bys() failed inside it; memo is the receiver's memo afterwards.
ReadOutcome(ok, result, memo) == [ok |-> ok, result |-> result, memo |-> memo]

MatchesBounds(q, doc) ==
    LET o == order_bys(q)
    IN  IF o.ok THEN ReadOutcome(TRUE, MatchesBoundsIn(q, o.value, doc), o.memo)
        ELSE ReadOutcome(FALSE, FALSE, o.memo)

\* The && chain of line 200 stops at the first false operand, so
\* order_bys() runs only when the first three parts hold.
Matches(q, doc) ==
    IF /\ MatchesPathAndCollectionGroup(q, doc)
       /\ MatchesOrderBy(q, doc)
       /\ MatchesFilters(q, doc)
    THEN MatchesBounds(q, doc)
    ELSE ReadOutcome(TRUE, FALSE, q.memoized_order_bys)

\* ------------------------------------------------------------ operator==

\* The operands of line 251-254 that precede the order_bys() comparison.
EqualBeforeOrderBys(lhs, rhs) ==
    /\ lhs.path = rhs.path
    /\ lhs.collection_group = rhs.collection_group
    /\ lhs.filters = rhs.filters

\* The operands of line 255-257 that follow it.
EqualAfterOrderBys(lhs, rhs) ==
    /\ lhs.limit = rhs.limit
    /\ lhs.start_at = rhs.start_at
    /\ lhs.end_at = rhs.end_at

\* operator== without the order_bys() comparison of line 255.
EqualsIgnoringOrderBys(lhs, rhs, lhs_first) ==
    [ok |-> TRUE,
     result |-> EqualBeforeOrderBys(lhs, rhs) /\ EqualAfterOrderBys(lhs, rhs),
     lhs_memo |-> lhs.memoized_order_bys,
     rhs_memo |-> rhs.memoized_order_bys]

\* Outcome of lhs == rhs: both memos afterwards.  The two order_bys()
\* calls of line 255 run in an unspecified order; lhs_first picks it, and a
\* failure of the first call leaves the second one not made.
Equals(lhs, rhs, lhs_first) ==
    LET l == order_bys(lhs)
        r == order_bys(rhs)
    IN  IF ~ EqualBeforeOrderBys(lhs, rhs)
        THEN [ok |-> TRUE, result |-> FALSE,
              lhs_memo |-> lhs.memoized_order_bys,
              rhs_memo |-> rhs.memoized_order_bys]
        ELSE IF l.ok /\ r.ok
        THEN [ok |-> TRUE,
              result |-> l.value = r.value /\ EqualAfterOrderBys(lhs, rhs),
              lhs_memo |-> l.memo, rhs_memo |-> r.memo]
        ELSE [ok |-> FALSE, result |-> FALSE,
              lhs_memo |-> IF lhs_first \/ ~ r.ok THEN l.memo
                           ELSE lhs.memoized_order_bys,
              rhs_memo |-> IF ~ lhs_first \/ ~ l.ok THEN r.memo
                           ELSE rhs.memoized_order_bys]

\* ------------------------------------------------------------ the calls

Idle == [pc |-> "idle", q |-> 0, result |-> <<>>, ok |-> TRUE, value |-> <<>>]

Call(op, recv, ok, value, result) ==
    [op |-> op, recv |-> recv, ok |-> ok, value |-> value, result |-> result]

\* A builder that pushes onto the receiver's own vectors: the receiver
\* becomes the Query returned.
ReturnedInPlace(h, i, r) ==
    IF r.ok THEN Append([h EXCEPT ![i] = r.query], r.query) ELSE h

\* The heap after a builder call on instance i returned r: the Query
\* constructed by the return statement is a new instance.
Returned(h, i, r) == IF r.ok THEN Append(h, r.query) ELSE h

\* A builder call on instance i with outcome r.
Build(op, i, r) ==
    /\ r.ok => Len(heap) < MaxQueries
    /\ heap' = Returned(heap, i, r)
    /\ last' = Call(op, i, r.ok, <<>>, FALSE)
    /\ UNCHANGED readers

CallAddingFilter ==
    \E i \in DOMAIN heap, filter \in FilterArgs :
        Build("AddingFilter", i, AddingFilter(heap[i], filter))

CallAddingOrderBy ==
    \E i \in DOMAIN heap, order_by \in OrderByArgs :
        Build("AddingOrderBy", i, AddingOrderBy(heap[i], order_by))

CallWithLimit ==
    \E i \in DOMAIN heap, limit \in LimitArgs :
        Build("WithLimit", i, WithLimit(heap[i], limit))

CallStartingAt ==
    \E i \in DOMAIN heap, bound \in BoundArgs :
        Build("StartingAt", i, StartingAt(heap[i], bound))

CallEndingAt ==
    \E i \in DOMAIN heap, bound \in BoundArgs :
        Build("EndingAt", i, EndingAt(heap[i], bound))

CallAsCollectionQueryAtPath ==
    \E i \in DOMAIN heap, path \in PathArgs :
        Build("AsCollectionQueryAtPath", i,
              AsCollectionQueryAtPath(heap[i], path))

CallOrderBys ==
    \E i \in DOMAIN heap :
        LET o == order_bys(heap[i])
        IN  /\ heap' = [heap EXCEPT ![i].memoized_order_bys = o.memo]
            /\ last' = Call("order_bys", i, o.ok, o.value, FALSE)
            /\ UNCHANGED readers

CallMatches ==
    \E i \in DOMAIN heap, doc \in Documents :
        LET m == Matches(heap[i], doc)
        IN  /\ heap' = [heap EXCEPT ![i].memoized_order_bys = m.memo]
            /\ last' = Call("Matches", i, m.ok, <<>>, m.result)
            /\ UNCHANGED readers

CallEquals ==
    \E i \in DOMAIN heap, j \in DOMAIN heap, lhs_first \in BOOLEAN :
        LET e == Equals(heap[i], heap[j], lhs_first)
        IN  /\ heap' = [k \in DOMAIN heap |->
                          IF k = i
                          THEN [heap[k] EXCEPT !.memoized_order_bys = e.lhs_memo]
                          ELSE IF k = j
                          THEN [heap[k] EXCEPT !.memoized_order_bys = e.rhs_memo]
                          ELSE heap[k]]
            /\ last' = Call("==", i, e.ok, <<>>, e.result)
            /\ UNCHANGED readers

Init ==
    /\ heap \in { <<root>> : root \in Roots }
    /\ last = Call("new", 1, TRUE, <<>>, FALSE)
    /\ readers = [r \in 1..NumReaders |-> Idle]

Next ==
    \/ CallAddingFilter
    \/ CallAddingOrderBy
    \/ CallWithLimit
    \/ CallStartingAt
    \/ CallEndingAt
    \/ CallAsCollectionQueryAtPath
    \/ CallOrderBys
    \/ CallMatches
    \/ CallEquals

Spec == Init /\ [][Next]_vars

\* ------------------------------------- order_bys() entered by several threads

\* Queries a sequence of at most n successful builder calls makes of a root.
BuilderResults(q) ==
    { r.query : r \in
        { x \in   { AddingFilter(q, f) : f \in FilterArgs }
             \cup { AddingOrderBy(q, o) : o \in OrderByArgs }
             \cup { WithLimit(q, n) : n \in LimitArgs }
             \cup { StartingAt(q, b) : b \in BoundArgs }
             \cup { EndingAt(q, b) : b \in BoundArgs }
             \cup { AsCollectionQueryAtPath(q, p) : p \in PathArgs } : x.ok } }

RECURSIVE ReachableIn(_)
ReachableIn(n) ==
    IF n = 0 THEN Roots
    ELSE LET prev == ReachableIn(n - 1)
         IN  prev \cup UNION { BuilderResults(q) : q \in prev }

Memo(r) == heap[readers[r].q].memoized_order_bys

SetMemo(r, memo) ==
    heap' = [heap EXCEPT ![readers[r].q].memoized_order_bys = memo]

Goto(r, pc) == readers' = [readers EXCEPT ![r].pc = pc]

\* A thread calls order_bys() on instance i.
Enter(r) ==
    \E i \in DOMAIN heap :
        /\ readers[r].pc = "idle"
        /\ readers' = [readers EXCEPT ![r] = [Idle EXCEPT !.pc = "test", !.q = i]]
        /\ UNCHANGED <<heap, last>>

\* Line 86, and on an empty memo lines 87-126: which writes will follow is
\* decided from the immutable fields alone.
TestMemo(r) ==
    /\ readers[r].pc = "test"
    /\ LET q == heap[readers[r].q]
           inequality_field == InequalityFilterField(q)
           first_order_by_field == FirstOrderByField(q)
       IN  IF q.memoized_order_bys # <<>>
           THEN Goto(r, "return")
           ELSE IF inequality_field # NoField /\ first_order_by_field = NoField
           THEN IF IsKeyFieldPath(inequality_field)
                THEN Goto(r, "emplace_key_only")
                ELSE Goto(r, "emplace_inequality")
           ELSE IF ~ ( \/ inequality_field = NoField
                       \/ inequality_field = first_order_by_field )
           THEN readers' = [readers EXCEPT ![r].pc = "done", ![r].ok = FALSE]
           ELSE readers' = [readers EXCEPT ![r].pc = "assign",
                                           ![r].result = ExplicitThenKey(q)]
    /\ UNCHANGED <<heap, last>>

\* Line 94.
EmplaceKeyOnly(r) ==
    /\ readers[r].pc = "emplace_key_only"
    /\ SetMemo(r, Append(Memo(r), OrderBy(KeyFieldPath, Ascending)))
    /\ Goto(r, "return")
    /\ UNCHANGED last

\* Line 97.
EmplaceInequality(r) ==
    /\ readers[r].pc = "emplace_inequality"
    /\ SetMemo(r, Append(Memo(r),
                         OrderBy(InequalityFilterField(heap[readers[r].q]),
                                 Ascending)))
    /\ Goto(r, "emplace_key")
    /\ UNCHANGED last

\* Line 99.
EmplaceKey(r) ==
    /\ readers[r].pc = "emplace_key"
    /\ SetMemo(r, Append(Memo(r), OrderBy(KeyFieldPath, Ascending)))
    /\ Goto(r, "return")
    /\ UNCHANGED last

\* Line 128.
AssignMemo(r) ==
    /\ readers[r].pc = "assign"
    /\ SetMemo(r, readers[r].result)
    /\ Goto(r, "return")
    /\ UNCHANGED last

\* Line 131: the caller sees the memo as it is now.
ReturnMemo(r) ==
    /\ readers[r].pc = "return"
    /\ readers' = [readers EXCEPT ![r].pc = "done", ![r].value = Memo(r)]
    /\ UNCHANGED <<heap, last>>

\* The thread is free to call again.
Leave(r) ==
    /\ readers[r].pc = "done"
    /\ readers' = [readers EXCEPT ![r] = Idle]
    /\ UNCHANGED <<heap, last>>

RaceInit ==
    /\ heap \in { <<q>> : q \in ReachableIn(RaceDepth) }
    /\ last = Call("new", 1, TRUE, <<>>, FALSE)
    /\ readers = [r \in 1..NumReaders |-> Idle]

RaceNext ==
    \E r \in 1..NumReaders :
        \/ Enter(r)
        \/ TestMemo(r)
        \/ EmplaceKeyOnly(r)
        \/ EmplaceInequality(r)
        \/ EmplaceKey(r)
        \/ AssignMemo(r)
        \/ ReturnMemo(r)
        \/ Leave(r)

SpecRace == RaceInit /\ [][RaceNext]_vars

\* ------------------------------------- reads on queries drawn from a set

\* Builder calls behind each query the reads below are made on.
ReadDepth == 2

\* Documents the reads are given: three keys, and in collection c every
\* combination of a value (or none) for a and for b.
ReadDocuments ==
    { Document(DocumentPath, 1, a, b) : a \in {NoValue, 1, 2},
                                        b \in {NoValue, 99, 100, 101} }
    \cup { Document(<<"c", "d", "c", "e">>, 2, 2, 100),
           Document(<<"x", "d">>, 3, 2, 100) }

\* Bounds given to StartingAt and EndingAt before the reads.
ReadBoundArgs ==
    { Bound(<<100>>, TRUE), Bound(<<100>>, FALSE), Bound(<<100, 1>>, TRUE) }

\* q itself and q.StartingAt(b), for every such bound.
WithStart(q) == {q} \cup { StartingAt(q, b).query : b \in ReadBoundArgs }

\* q itself and q.EndingAt(b), for every such bound.
WithEnd(q) == {q} \cup { EndingAt(q, b).query : b \in ReadBoundArgs }

\* Queries of at most ReadDepth builder calls, then at most one StartingAt
\* and one EndingAt.
ReadQueries ==
    UNION { WithEnd(s) : s \in UNION { WithStart(q) : q \in ReachableIn(ReadDepth) } }

\* Matches(doc) on instance i, the document recorded with the outcome.
ReadMatches ==
    \E i \in DOMAIN heap, doc \in ReadDocuments :
        LET m == Matches(heap[i], doc)
        IN  /\ heap' = [heap EXCEPT ![i].memoized_order_bys = m.memo]
            /\ last' = [op |-> "Matches", recv |-> i, ok |-> m.ok,
                        value |-> <<>>, result |-> m.result, doc |-> doc]
            /\ UNCHANGED readers

\* heap[i] == heap[j], the right operand recorded with the outcome.
ReadEquals ==
    \E i \in DOMAIN heap, j \in DOMAIN heap, lhs_first \in BOOLEAN :
        LET e == Equals(heap[i], heap[j], lhs_first)
        IN  /\ heap' = [k \in DOMAIN heap |->
                          IF k = i
                          THEN [heap[k] EXCEPT !.memoized_order_bys = e.lhs_memo]
                          ELSE IF k = j
                          THEN [heap[k] EXCEPT !.memoized_order_bys = e.rhs_memo]
                          ELSE heap[k]]
            /\ last' = [op |-> "==", recv |-> i, ok |-> e.ok,
                        value |-> <<>>, result |-> e.result, other |-> j]
            /\ UNCHANGED readers

ReadInit ==
    /\ heap \in { <<q>> : q \in ReadQueries }
    /\ last = Call("new", 1, TRUE, <<>>, FALSE)
    /\ readers = [r \in 1..NumReaders |-> Idle]

ReadNext ==
    \/ ReadMatches
    \/ CallOrderBys

SpecRead == ReadInit /\ [][ReadNext]_vars

\* Queries compared with each other: those scoped to collection c or to
\* the root.
PairQueries ==
    { q \in ReachableIn(ReadDepth) : q.path \in {CollectionPath, <<>>} }

PairInit ==
    /\ heap \in { <<l, r>> : l \in PairQueries, r \in PairQueries }
    /\ last = Call("new", 1, TRUE, <<>>, FALSE)
    /\ readers = [r \in 1..NumReaders |-> Idle]

PairNext ==
    \/ ReadEquals
    \/ CallOrderBys

SpecPairs == PairInit /\ [][PairNext]_vars

\* Pairs of those Queries that differ at most in their explicit order-bys:
\* the pairs whose comparison the canonical order-bys decide.
ComparablePairs ==
    { pair \in { <<l, r>> : l \in PairQueries, r \in PairQueries } :
        /\ EqualBeforeOrderBys(pair[1], pair[2])
        /\ EqualAfterOrderBys(pair[1], pair[2]) }

ComparableInit ==
    /\ heap \in ComparablePairs
    /\ last = Call("new", 1, TRUE, <<>>, FALSE)
    /\ readers = [r \in 1..NumReaders |-> Idle]

ComparableNext ==
    \/ ReadEquals
    \/ ReadMatches
    \/ CallOrderBys

SpecComparable == ComparableInit /\ [][ComparableNext]_vars

\* ------------------------------------------------------------ properties

BuilderOps ==
    { "AddingFilter", "AddingOrderBy", "WithLimit", "StartingAt", "EndingAt",
      "AsCollectionQueryAtPath" }

\* The last call was a builder call that returned a Query; the Query it
\* returned is then the newest instance.
BuilderReturned == last.op \in BuilderOps /\ last.ok

Receiver == heap[last.recv]

Newest == heap[Len(heap)]

InequalityFilters(q) == { k \in 1..Len(q.filters) : IsInequality(q.filters[k]) }

KeyEntries(order_bys_) ==
    { k \in 1..Len(order_bys_) : IsKeyFieldPath(order_bys_[k].field) }

\* C1: in every Query built, a non-empty explicit order-by list and an
\* inequality filter together imply that the first explicit order-by is on
\* the inequality filter's field.
C1_FirstOrderByIsInequalityField ==
    \A i \in DOMAIN heap :
        (heap[i].explicit_order_bys # <<>> /\ InequalityFilterField(heap[i]) # NoField)
            => FirstOrderByField(heap[i]) = InequalityFilterField(heap[i])

\* C2: order_bys(), Matches and operator== never fail on a Query that
\* successful builder calls returned.
C2_ReadsNeverFail ==
    last.op \in {"order_bys", "Matches", "=="} => last.ok

\* C3: every order_bys() call that returns while other threads are inside
\* order_bys() on the same instance returns the complete canonical
\* sequence, and once no thread is inside order_bys() the memo is either
\* empty or that sequence.
C3_RacingReadersSeeCanonical ==
    /\ \A r \in 1..NumReaders :
          (readers[r].pc = "done" /\ readers[r].ok)
              => readers[r].value = ComputeOrderBys(heap[readers[r].q]).value
    /\ (\A r \in 1..NumReaders : readers[r].pc \in {"idle", "done"})
          => \A i \in DOMAIN heap :
                heap[i].memoized_order_bys
                    \in {<<>>, ComputeOrderBys(heap[i]).value}

\* C4 as stated: the key field appears exactly once in every order_bys()
\* result and is its last entry.
C4_KeyExactlyOnceAndLast ==
    (last.op = "order_bys" /\ last.ok)
        => /\ Cardinality(KeyEntries(last.value)) = 1
           /\ IsKeyFieldPath(last.value[Len(last.value)].field)

\* C4 as amended: the key field appears in every order_bys() result; when no
\* explicit order-by is on the key field it appears exactly once, as the
\* last entry.
C4_KeyPresentAndLastWhenImplicit ==
    (last.op = "order_bys" /\ last.ok)
        => /\ KeyEntries(last.value) # {}
           /\ KeyEntries(Receiver.explicit_order_bys) = {}
                 => KeyEntries(last.value) = {Len(last.value)}

\* C4 witness: order_bys() returned a sequence that starts with the key and
\* goes on with another field.
C4_Witness ==
    /\ last.op = "order_bys" /\ last.ok
    /\ Len(last.value) >= 2
    /\ IsKeyFieldPath(last.value[1].field)
    /\ ~ IsKeyFieldPath(last.value[2].field)

\* C5 as stated: at most one inequality filter per Query.
C5_AtMostOneInequalityFilter ==
    \A i \in DOMAIN heap : Cardinality(InequalityFilters(heap[i])) <= 1

\* C5 as amended: the inequality filters of a Query, however many, name at
\* most one field.
C5_AtMostOneInequalityField ==
    \A i \in DOMAIN heap :
        Cardinality({ heap[i].filters[k].field : k \in InequalityFilters(heap[i]) }) <= 1

\* C5 witness: a Query holding two different inequality filters.
C5_Witness ==
    \E i \in DOMAIN heap :
        /\ Cardinality(InequalityFilters(heap[i])) = 2
        /\ heap[i].filters[1] # heap[i].filters[2]

\* C6: every inequality filter of a Query is on the field that
\* InequalityFilterField() returns.
C6_InequalityFiltersShareFirstField ==
    \A i \in DOMAIN heap :
        \A k \in InequalityFilters(heap[i]) :
            heap[i].filters[k].field = InequalityFilterField(heap[i])

\* C6 witness: the last call added a second inequality filter.
C6_Witness ==
    /\ last.op = "AddingFilter" /\ last.ok
    /\ InequalityFilters(Receiver) # {}
    /\ Cardinality(InequalityFilters(Newest)) = Cardinality(InequalityFilters(Receiver)) + 1

\* C7 as stated: a Query whose path names a document (a non-empty path of
\* even length) has no filters and no explicit order-bys.
C7_DocumentPathHasNoFiltersOrOrderBys ==
    \A i \in DOMAIN heap :
        (heap[i].path # <<>> /\ IsDocumentKey(heap[i].path))
            => heap[i].filters = <<>> /\ heap[i].explicit_order_bys = <<>>

Bare(q) ==
    /\ IsDocumentKey(q.path)
    /\ q.collection_group = NoGroup
    /\ q.filters = <<>>
    /\ q.explicit_order_bys = <<>>

\* C7 as amended: a Query with a document path, no collection group, no
\* filters and no explicit order-bys keeps all four under every builder call
\* other than AsCollectionQueryAtPath: on it AddingFilter and AddingOrderBy
\* fail, and WithLimit, StartingAt and EndingAt return such a Query again.
C7_DocumentQueryStaysBare ==
    [][ ( /\ last'.op \in BuilderOps \ {"AsCollectionQueryAtPath"}
          /\ Bare(heap[last'.recv]) )
            => /\ last'.op \in {"AddingFilter", "AddingOrderBy"} => ~ last'.ok
               /\ last'.ok => Bare(heap'[Len(heap')]) ]_vars

\* C7 witness: AddingOrderBy has just failed on such a Query.
C7_Witness ==
    /\ last.op = "AddingOrderBy" /\ ~ last.ok
    /\ Bare(Receiver)

\* C8: a builder call, failed or not, leaves every existing instance as it
\* was: path, collection group, filters, explicit order-bys, limit, bounds,
\* and what order_bys() returns on it.
C8_BuilderLeavesReceiverUnchanged ==
    [][ last'.op \in BuilderOps
            => /\ Len(heap') >= Len(heap)
               /\ \A k \in DOMAIN heap :
                     /\ heap'[k] = heap[k]
                     /\ order_bys(heap'[k]) = order_bys(heap[k]) ]_vars

\* C8 witness: a builder call failed on a receiver whose memo was filled,
\* and the receiver still has what other builder calls made of it.
C8_Witness ==
    /\ last.op = "AddingOrderBy" /\ ~ last.ok
    /\ Receiver.memoized_order_bys # <<>>
    /\ Len(heap) > last.recv

\* The derivation C9 states: no failure case.
ReferenceOrderBys(q) ==
    LET ineq == InequalityFilterField(q)
        explicit == q.explicit_order_bys
    IN  IF ineq # NoField /\ explicit = <<>>
        THEN IF ineq = KeyFieldPath
             THEN <<OrderBy(KeyFieldPath, Ascending)>>
             ELSE <<OrderBy(ineq, Ascending), OrderBy(KeyFieldPath, Ascending)>>
        ELSE IF \E k \in 1..Len(explicit) : explicit[k].field = KeyFieldPath
        THEN explicit
        ELSE explicit \o
             <<OrderBy(KeyFieldPath,
                       IF explicit = <<>> THEN Ascending
                       ELSE explicit[Len(explicit)].direction)>>

\* C9: order_bys() returns the reference derivation on every Query built.
C9_OrderBysIsReference ==
    last.op = "order_bys"
        => last.ok /\ last.value = ReferenceOrderBys(Receiver)

\* C10: what order_bys() returns on an instance is what the derivation
\* gives for that instance's own filters and explicit order-bys, whatever
\* was called on the instance it was built from; and a Query returned by
\* WithLimit, StartingAt, EndingAt or AsCollectionQueryAtPath has the
\* order_bys() of its receiver.
C10_OrderBysFromOwnFields ==
    /\ \A i \in DOMAIN heap :
          LET o == order_bys(heap[i])
              c == ComputeOrderBys(heap[i])
          IN  o.ok = c.ok /\ o.value = c.value
    /\ (BuilderReturned /\ last.op \notin {"AddingFilter", "AddingOrderBy"})
          => /\ order_bys(Newest).ok = order_bys(Receiver).ok
             /\ order_bys(Newest).value = order_bys(Receiver).value

\* C10 witness: a filter was added to a Query whose memo was filled, and
\* the Query returned derives another sequence than the receiver's memo.
C10_Witness ==
    /\ BuilderReturned /\ last.op = "AddingFilter"
    /\ Receiver.memoized_order_bys # <<>>
    /\ order_bys(Newest).ok
    /\ order_bys(Newest).value # Receiver.memoized_order_bys

\* C11: with calls that do not overlap, an instance's memo is written at
\* most once: a memo that is filled is left as it is by every later call,
\* and every order_bys() that returns gives back the memo, hence the sequence
\* the first call returned.
C11_MemoWrittenAtMostOnce ==
    [][ /\ \A i \in DOMAIN heap :
              heap[i].memoized_order_bys # <<>>
                  => heap'[i].memoized_order_bys = heap[i].memoized_order_bys
        /\ (last'.op = "order_bys" /\ last'.ok)
              => /\ last'.value # <<>>
                 /\ heap'[last'.recv].memoized_order_bys = last'.value ]_vars

\* A Matches that returned before reaching the bounds, as it does for every
\* document, on an instance whose memo an earlier call has filled.
C11_Witness ==
    /\ last.op = "Matches"
    /\ last.ok
    /\ Receiver.memoized_order_bys # <<>>
    /\ \A doc \in Documents :
          ~ ( /\ MatchesPathAndCollectionGroup(Receiver, doc)
              /\ MatchesOrderBy(Receiver, doc)
              /\ MatchesFilters(Receiver, doc) )

\* The parts operator== is stated to compare, the canonical order-bys
\* being the derivation of each operand.
AllPartsEqual(lhs, rhs) ==
    /\ lhs.path = rhs.path
    /\ lhs.collection_group = rhs.collection_group
    /\ Len(lhs.filters) = Len(rhs.filters)
    /\ \A k \in 1..Len(lhs.filters) : lhs.filters[k] = rhs.filters[k]
    /\ ReferenceOrderBys(lhs) = ReferenceOrderBys(rhs)
    /\ lhs.limit = rhs.limit
    /\ lhs.start_at = rhs.start_at
    /\ lhs.end_at = rhs.end_at

\* C12: operator== returns, and returns true exactly when paths, collection
\* groups, filters position by position, canonical order-bys, limits and
\* both bounds are equal.
C12_EqualIffAllPartsEqual ==
    last.op = "=="
        => /\ last.ok
           /\ last.result <=> AllPartsEqual(Receiver, heap[last.other])

\* Matches(doc) has returned on a Query whose canonical order-bys are
\* (b desc, key desc), with the inclusive start bound [100] and no end
\* bound, for a document that passes scope, order-by and filter matching:
\* the result is the verdict of the start bound.  Field b stands for score.
StartBoundDecided ==
    /\ last.op = "Matches" /\ last.ok
    /\ Receiver.memoized_order_bys =
          <<OrderBy("b", Descending), OrderBy(KeyFieldPath, Descending)>>
    /\ Receiver.start_at = Bound(<<100>>, TRUE)
    /\ ~ Receiver.end_at.present
    /\ MatchesPathAndCollectionGroup(Receiver, last.doc)
    /\ MatchesOrderBy(Receiver, last.doc)
    /\ MatchesFilters(Receiver, last.doc)

HasInequalityOnOtherField(q, field) ==
    \E k \in 1..Len(q.filters) :
        IsInequality(q.filters[k]) /\ q.filters[k].field # field

\* q has a document path, no collection group and no filters.
OnDocumentUnfiltered(q) ==
    /\ IsDocumentKey(q.path)
    /\ q.collection_group = NoGroup
    /\ q.filters = <<>>

\* q with its memo empty, as a Query just constructed has it.
Fresh(q) == [q EXCEPT !.memoized_order_bys = <<>>]

\* C14: on every Query and with every argument, AddingFilter fails exactly
\* on a document query or for an inequality on another field than an
\* inequality filter present; AddingOrderBy fails exactly on a document query
\* or when the explicit list is empty and an inequality filter is on another
\* field than the order-by's; when they do not fail they return the Query
\* with the argument appended last; the other four builders never fail.
C14_BuildersFailExactlyWhen ==
    \A i \in DOMAIN heap :
        LET q == heap[i]
        IN  /\ \A filter \in FilterArgs :
                  LET r == AddingFilter(q, filter)
                  IN  /\ ~ r.ok <=>
                            \/ OnDocumentUnfiltered(q)
                            \/ /\ IsInequality(filter)
                               /\ HasInequalityOnOtherField(q, filter.field)
                      /\ r.ok => r.query =
                            Fresh([q EXCEPT !.filters = q.filters \o <<filter>>])
            /\ \A order_by \in OrderByArgs :
                  LET r == AddingOrderBy(q, order_by)
                  IN  /\ ~ r.ok <=>
                            \/ OnDocumentUnfiltered(q)
                            \/ /\ q.explicit_order_bys = <<>>
                               /\ HasInequalityOnOtherField(q, order_by.field)
                      /\ r.ok => r.query =
                            Fresh([q EXCEPT !.explicit_order_bys =
                                                q.explicit_order_bys \o <<order_by>>])
            /\ \A limit \in LimitArgs : WithLimit(q, limit).ok
            /\ \A bound \in BoundArgs :
                  StartingAt(q, bound).ok /\ EndingAt(q, bound).ok
            /\ \A path \in PathArgs : AsCollectionQueryAtPath(q, path).ok

\* C14 witness: AddingOrderBy has just failed on a Query that is not a
\* document query.
C14_Witness ==
    /\ last.op = "AddingOrderBy" /\ ~ last.ok
    /\ ~ IsDocumentQuery(Receiver)

\* Matches(doc) has come to MatchesBounds: scope, order-by and filter
\* matching passed.
ReachedBounds ==
    /\ last.op = "Matches"
    /\ MatchesPathAndCollectionGroup(Receiver, last.doc)
    /\ MatchesOrderBy(Receiver, last.doc)
    /\ MatchesFilters(Receiver, last.doc)

\* How the document stands to the bound under the ordering: "before" or
\* "after" it by the first compared position where they differ, in that
\* order-by's direction; "tie" when every compared position is equal.
Standing(bound, ordering, doc) ==
    LET n == IF Len(bound.components) <= Len(ordering)
             THEN Len(bound.components) ELSE Len(ordering)
        differs(k) ==
            DocSortValue(doc, ordering[k].field) # bound.components[k]
        first == CHOOSE k \in 1..n :
                    differs(k) /\ \A m \in 1..(k - 1) : ~ differs(m)
        smaller == DocSortValue(doc, ordering[first].field)
                       < bound.components[first]
    IN  IF \A k \in 1..n : ~ differs(k) THEN "tie"
        ELSE IF smaller <=> (ordering[first].direction = Ascending)
        THEN "before"
        ELSE "after"

ParentPath(doc) == SubSeq(doc.path, 1, Len(doc.path) - 1)

\* The three modes of scope matching as C16 states them.
StatedScope(q, doc) ==
    IF q.collection_group # NoGroup
    THEN /\ ParentPath(doc) # <<>>
         /\ ParentPath(doc)[Len(ParentPath(doc))] = q.collection_group
         /\ Len(q.path) <= Len(doc.path)
         /\ SubSeq(doc.path, 1, Len(q.path)) = q.path
    ELSE IF Len(q.path) % 2 = 0
    THEN doc.path = q.path
    ELSE ParentPath(doc) = q.path

\* C16: scope matching takes the collection-group mode whenever a group is
\* present, also on a document scope path; else the equality mode on a
\* document path; else the immediate-parent mode, which matches no document
\* of a deeper sub-collection.  Matches accepts no document out of scope.
C16_ScopeModesInPriority ==
    /\ \A i \in DOMAIN heap, doc \in ReadDocuments :
          MatchesPathAndCollectionGroup(heap[i], doc) <=> StatedScope(heap[i], doc)
    /\ (last.op = "Matches" /\ last.ok /\ last.result)
          => StatedScope(Receiver, last.doc)

\* C16 witness: a collection-group query scoped to a document path has
\* matched a document below that path.
C16_Witness ==
    /\ last.op = "Matches" /\ last.ok /\ last.result
    /\ Receiver.collection_group # NoGroup
    /\ Receiver.path = DocumentPath
    /\ last.doc.path # Receiver.path

\* The explicit order-bys of q on a field other than the key for which the
\* document has no value.
UnorderableBy(q, doc) ==
    { k \in 1..Len(q.explicit_order_bys) :
        /\ ~ IsKeyFieldPath(q.explicit_order_bys[k].field)
        /\ DocField(doc, q.explicit_order_bys[k].field) = NoValue }

\* C17: Matches returns false whenever the document has no value for the
\* field of some explicit order-by other than the key; order-by matching
\* rejects for no other reason, so neither an explicit order-by on the key
\* nor an entry only the canonical sequence has makes a document mismatch.
C17_ExplicitOrderByNeedsValue ==
    /\ (last.op = "Matches" /\ UnorderableBy(Receiver, last.doc) # {})
          => last.ok /\ ~ last.result
    /\ \A i \in DOMAIN heap, doc \in ReadDocuments :
          MatchesOrderBy(heap[i], doc) <=> UnorderableBy(heap[i], doc) = {}

\* C17 witness: a document in scope that passes the filters, on a Query
\* without bounds, was rejected for an explicit order-by it has no value for.
C17_Witness ==
    /\ last.op = "Matches" /\ last.ok /\ ~ last.result
    /\ UnorderableBy(Receiver, last.doc) # {}
    /\ MatchesPathAndCollectionGroup(Receiver, last.doc)
    /\ MatchesFilters(Receiver, last.doc)
    /\ ~ Receiver.start_at.present /\ ~ Receiver.end_at.present

\* The document is one a collection-group query q can match by scope, and
\* at is q turned into a query on the collection the document lies in.
RetargetedAt(q, at, doc) ==
    /\ q.collection_group # NoGroup
    /\ HasCollectionId(doc, q.collection_group)
    /\ IsPrefixOf(q.path, doc.path)
    /\ at.path = ParentPath(doc)

\* C18: AsCollectionQueryAtPath(path) returns a Query on path without a
\* collection group whose filters, explicit order-bys, limit, bounds and
\* order_bys() are the receiver's; on a document whose collection id and
\* path the receiver's group and scope path admit, the Query returned for
\* the document's collection gives what the receiver's Matches gives.
C18_RetargetingKeepsMatches ==
    /\ \A i \in DOMAIN heap, path \in PathArgs :
          AsCollectionQueryAtPath(heap[i], path).query.path = path
    /\ (BuilderReturned /\ last.op = "AsCollectionQueryAtPath")
          => /\ Newest.collection_group = NoGroup
             /\ Newest.filters = Receiver.filters
             /\ Newest.explicit_order_bys = Receiver.explicit_order_bys
             /\ Newest.limit = Receiver.limit
             /\ Newest.start_at = Receiver.start_at
             /\ Newest.end_at = Receiver.end_at
             /\ order_bys(Newest).ok = order_bys(Receiver).ok
             /\ order_bys(Newest).value = order_bys(Receiver).value
             /\ \A doc \in ReadDocuments :
                   RetargetedAt(Receiver, Newest, doc)
                       => /\ Matches(Newest, doc).ok = Matches(Receiver, doc).ok
                          /\ Matches(Newest, doc).result
                                = Matches(Receiver, doc).result

\* C18 witness: a collection-group query with a filter was retargeted at the
\* collection of a document that it matches.
C18_Witness ==
    /\ BuilderReturned /\ last.op = "AsCollectionQueryAtPath"
    /\ Receiver.filters # <<>>
    /\ \E doc \in ReadDocuments :
          /\ RetargetedAt(Receiver, Newest, doc)
          /\ Matches(Receiver, doc).result

\* C19: two Queries that compare equal give the same Matches result on every
\* document, also when their explicit order-bys differ: Matches returns on
\* both, and what a call has returned on one is what the other returns.
C19_EqualQueriesMatchAlike ==
    /\ \A i \in DOMAIN heap, j \in DOMAIN heap :
          (Equals(heap[i], heap[j], TRUE).ok /\ Equals(heap[i], heap[j], TRUE).result)
              => \A doc \in ReadDocuments :
                    /\ Matches(heap[i], doc).ok
                    /\ Matches(heap[j], doc).ok
                    /\ Matches(heap[i], doc).result = Matches(heap[j], doc).result
    /\ (last.op = "Matches" /\ last.ok)
          => \A j \in DOMAIN heap :
                Equals(Receiver, heap[j], TRUE).result
                    => Matches(heap[j], last.doc).result = last.result

\* C19 witness: Matches accepted a document on a Query that compares equal
\* to one with other explicit order-bys.
C19_Witness ==
    /\ last.op = "Matches" /\ last.ok /\ last.result
    /\ \E j \in DOMAIN heap :
          /\ heap[j].explicit_order_bys # Receiver.explicit_order_bys
          /\ Equals(Receiver, heap[j], TRUE).result

====
